---- MODULE Spec2Model ----
(***************************************************************************)
(* The AWS Signature Version 4 signer of the Selling Partner API client:   *)
(* AWSSigV4.__init__ and AWSSigV4.__call__ (src/aws_sig_v4.py, repeated    *)
(* verbatim in src/amazon_sp_api.py).                                       *)
(*                                                                         *)
(* A Python str is a sequence of code points and a bytes object a sequence *)
(* of byte values, both sequences of integers.  None is a one-element      *)
(* sequence holding a value no code point has.  SHA-256 and HMAC-SHA256    *)
(* are given functions: each is a free (injective) constructor whose       *)
(* output is written in an alphabet of negative integers, which no text    *)
(* of the program contains.                                                *)
(*                                                                         *)
(* Around the signer: SPAPI.make_request (src/amazon_sp_api.py), the retry *)
(* loop call_sp_api_method (src/amazon_repository.py and                   *)
(* src/amazon_methods.py) and AmazonRepository.get_orders.  Spec is the    *)
(* signer called once; SpecRepository the retry loop and the pagination;   *)
(* SpecClient successive make_request calls; SpecOwn and SpecShared two    *)
(* threads whose signing calls interleave, on a signer object each and on  *)
(* one signer object.                                                      *)
(***************************************************************************)
EXTENDS Integers, Sequences, FiniteSets, TLC

VARIABLES
  pc,       \* "start", "KeyError", "constructed", "ValueError" or "returned"
  kwargs,   \* the keyword arguments the constructor was called with
  signer,   \* the attributes of the AWSSigV4 object
  arg,      \* the request as it was passed to the signer
  time,     \* the clock reading of the call
  request,  \* the request object, whose headers the signer changes
  frame,    \* the locals of the call
  retry,    \* the locals of call_sp_api_method
  listing,  \* the locals of AmazonRepository.get_orders
  client,   \* the SPAPI object, the locals of make_request and the services' log
  signers,  \* the signer objects that calls of several threads run on
  calls     \* the locals of the call of each thread

vars ==
  <<pc, kwargs, signer, arg, time, request, frame, retry, listing, client, signers, calls>>

-----------------------------------------------------------------------------
(* Text. *)

Ascii ==
  <<" ","!","\"","#","$","%","&","'","(",")","*","+",",","-",".","/",
    "0","1","2","3","4","5","6","7","8","9",":",";","<","=",">","?","@",
    "A","B","C","D","E","F","G","H","I","J","K","L","M","N","O","P","Q",
    "R","S","T","U","V","W","X","Y","Z","[","\\","]","^","_","grave",
    "a","b","c","d","e","f","g","h","i","j","k","l","m","n","o","p","q",
    "r","s","t","u","v","w","x","y","z","{","|","}","~">>

\* ord(c) of a printable ASCII character: Ascii[1] is the space, code 32
\* (code 96 is spelled out: the grave accent cannot be written in a string).
CodePoint ==
  [c \in {Ascii[i] : i \in DOMAIN Ascii} |-> 31 + (CHOOSE i \in DOMAIN Ascii : Ascii[i] = c)]

Ord(c) == CodePoint[c]

\* A string literal, written as its characters.
Str(t) == [i \in 1..Len(t) |-> Ord(t[i])]

None == << -1 >>

\* Python truthiness of a str, bytes or None value.
Truthy(x) == x # None /\ x # << >>

\* str.lower() on one code point and on a string.
LowerChar(c) == IF c >= Ord("A") /\ c <= Ord("Z") THEN c + (Ord("a") - Ord("A")) ELSE c

lower(s) == [i \in 1..Len(s) |-> LowerChar(s[i])]

\* str.startswith(prefix)
startswith(s, prefix) ==
  /\ Len(prefix) <= Len(s)
  /\ SubSeq(s, 1, Len(prefix)) = prefix

\* s < t for two strings: Python compares code point by code point, and a
\* proper prefix is the smaller.
RECURSIVE StrLess(_, _)
StrLess(s, t) ==
  IF t = << >> THEN FALSE
  ELSE IF s = << >> THEN TRUE
  ELSE IF Head(s) # Head(t) THEN Head(s) < Head(t)
  ELSE StrLess(Tail(s), Tail(t))

\* (k1, v1) < (k2, v2) for two tuples of strings.
PairLess(p, q) ==
  \/ StrLess(p[1], q[1])
  \/ p[1] = q[1] /\ StrLess(p[2], q[2])

\* The index of the first occurrence of the character c in s, 0 when absent.
IndexOf(s, c) ==
  LET at == {i \in DOMAIN s : s[i] = c}
  IN  IF at = {} THEN 0 ELSE CHOOSE i \in at : \A j \in at : i <= j

\* str.split(sep) for a one-character separator: the list of the pieces,
\* one more than the number of separators.
RECURSIVE split(_, _)
split(s, sep) ==
  LET i == IndexOf(s, sep)
  IN  IF i = 0 THEN << s >>
      ELSE << SubSeq(s, 1, i - 1) >> \o split(SubSeq(s, i + 1, Len(s)), sep)

\* sep.join(list)
RECURSIVE join(_, _)
join(sep, list) ==
  IF list = << >> THEN << >>
  ELSE IF Len(list) = 1 THEN list[1]
  ELSE list[1] \o sep \o join(sep, Tail(list))

\* sorted(...) of a finite set of strings, as a list.
RECURSIVE sorted(_)
sorted(S) ==
  IF S = {} THEN << >>
  ELSE LET m == CHOOSE x \in S : \A y \in S \ {x} : StrLess(x, y)
       IN  << m >> \o sorted(S \ {m})

\* str.encode("utf-8"): one byte below 128, two bytes below 2048.
RECURSIVE encode_each(_)
encode_each(s) ==
  IF s = << >> THEN << >>
  ELSE LET c == Head(s)
       IN  (IF c < 128 THEN << c >>
            ELSE << 192 + (c \div 64), 128 + (c % 64) >>) \o encode_each(Tail(s))

encode(s) == IF \A i \in DOMAIN s : s[i] < 128 THEN s ELSE encode_each(s)

-----------------------------------------------------------------------------
(* hashlib and hmac, as given functions. *)

\* A value inside a digest: no code point, no digest marker.
Opaque(v) == IF v >= 0 THEN 0 - (10 + 2 * v) ELSE 0 - (11 - 2 * v)

Seal(s) == [i \in 1..Len(s) |-> Opaque(s[i])]

\* hashlib.sha256(data).hexdigest()
sha256_hexdigest(data) == << -2 >> \o Seal(data)

\* hmac.new(key, msg, hashlib.sha256).digest()
hmac_digest(key, msg) == << -3 >> \o Seal(key) \o << -4 >> \o Seal(msg)

\* hmac.new(key, msg, hashlib.sha256).hexdigest()
hmac_hexdigest(key, msg) == << -5 >> \o Seal(key) \o << -4 >> \o Seal(msg)

-----------------------------------------------------------------------------
(* The literals of AWSSigV4. *)

NL == 10

HOST == Str(<<"H","o","s","t">>)

CONTENT_TYPE == Str(<<"C","o","n","t","e","n","t","-","T","y","p","e">>)

USER_AGENT == Str(<<"U","s","e","r","-","A","g","e","n","t">>)

SECURITY_TOKEN ==
  Str(<<"x","-","a","m","z","-","s","e","c","u","r","i","t","y","-","t","o","k","e","n">>)

AMZ_DATE == Str(<<"X","-","A","M","Z","-","D","a","t","e">>)

CONTENT_SHA256 ==
  Str(<<"x","-","a","m","z","-","c","o","n","t","e","n","t","-","s","h","a","2","5","6">>)

AUTHORIZATION == Str(<<"A","u","t","h","o","r","i","z","a","t","i","o","n">>)

DefaultContentType ==
  Str(<<"a","p","p","l","i","c","a","t","i","o","n","/","x","-","w","w","w","-","f","o","r","m",
        "-","u","r","l","e","n","c","o","d","e","d",";"," ","c","h","a","r","s","e","t","=","u",
        "t","f","-","8">>)

DefaultUserAgent ==
  Str(<<"p","y","t","h","o","n","-","a","m","a","z","o","n","-","m","w","s","/","0",".","0",".",
        "1"," ","(","L","a","n","g","u","a","g","e","=","P","y","t","h","o","n",")">>)

GET == Str(<<"G","E","T">>)

AMZ_PREFIX == Str(<<"x","-","a","m","z","-">>)

host_name == Str(<<"h","o","s","t">>)

AWS4 == Str(<<"A","W","S","4">>)

aws4_request == Str(<<"a","w","s","4","_","r","e","q","u","e","s","t">>)

ALGORITHM == Str(<<"A","W","S","4","-","H","M","A","C","-","S","H","A","2","5","6">>)

-----------------------------------------------------------------------------
(* request.headers: requests' CaseInsensitiveDict.  It keeps one entry per *)
(* lowercased name, holding the name as last written and the value.        *)

contains(headers, name) == lower(name) \in DOMAIN headers

getitem(headers, name) == headers[lower(name)].value

setitem(headers, name, value) ==
  [h \in DOMAIN headers \cup {lower(name)} |->
     IF h = lower(name) THEN [key |-> name, value |-> value] ELSE headers[h]]

keys(headers) == {headers[h].key : h \in DOMAIN headers}

-----------------------------------------------------------------------------
(* AWSSigV4.__init__ *)

\* kwargs.get(key): None for a key that was not supplied.
get(kw, key) == IF key \in DOMAIN kw THEN kw[key] ELSE None

\* The two raise statements: KeyError.
init_raises(kw) ==
  \/ ~Truthy(get(kw, "aws_access_key_id"))
  \/ ~Truthy(get(kw, "aws_secret_access_key"))
  \/ get(kw, "region") = None

\* The attributes the constructor sets; amzdate and datestamp are set by
\* __call__ and are None here for "no such attribute yet".
AWSSigV4_init(service, kw) ==
  [ service               |-> service,
    region                |-> get(kw, "region"),
    aws_access_key_id     |-> get(kw, "aws_access_key_id"),
    aws_session_token     |-> get(kw, "aws_session_token"),
    aws_secret_access_key |-> get(kw, "aws_secret_access_key"),
    amzdate               |-> None,
    datestamp             |-> None ]

-----------------------------------------------------------------------------
(* AWSSigV4.__call__ *)

\* An integer as w decimal digits, zero padded (strftime's %Y %m %d %H %M %S).
RECURSIVE digits(_, _)
digits(n, w) ==
  IF w = 0 THEN << >> ELSE digits(n \div 10, w - 1) \o << Ord("0") + (n % 10) >>

\* time.strftime("%Y%m%d")
strftime_date(t) == digits(t.year, 4) \o digits(t.month, 2) \o digits(t.day, 2)

\* time.strftime("%Y%m%dT%H%M%SZ")
strftime_amzdate(t) ==
  strftime_date(t) \o << Ord("T") >>
    \o digits(t.hour, 2) \o digits(t.minute, 2) \o digits(t.second, 2) \o << Ord("Z") >>

\* urlparse(url) for scheme://netloc/path?query (no userinfo, port or
\* fragment): hostname is the lowercased netloc.
urlparse(url) ==
  LET c     == IndexOf(url, Ord(":"))
      rest  == SubSeq(url, c + 3, Len(url))
      s     == IndexOf(rest, Ord("/"))
      q     == IndexOf(rest, Ord("?"))
      stop  == IF s = 0 /\ q = 0 THEN Len(rest) + 1
               ELSE IF s = 0 THEN q
               ELSE IF q = 0 THEN s
               ELSE IF s < q THEN s ELSE q
      tail  == SubSeq(rest, stop, Len(rest))
      qt    == IndexOf(tail, Ord("?"))
  IN  [ hostname |-> lower(SubSeq(rest, 1, stop - 1)),
        path     |-> IF qt = 0 THEN tail ELSE SubSeq(tail, 1, qt - 1),
        query    |-> IF qt = 0 THEN << >> ELSE SubSeq(tail, qt + 1, Len(tail)) ]

\* map(lambda i: i.split("="), parsed_url.query.split("&"))
query_pieces(query) ==
  LET parts == split(query, Ord("&"))
  IN  [i \in DOMAIN parts |-> split(parts[i], Ord("="))]

\* dict(list) raises ValueError unless every element has exactly two items.
dict_raises(list) == \E i \in DOMAIN list : Len(list[i]) # 2

\* dict(list): one entry per key, the last pair with a key giving its value.
dict(list) ==
  [k \in {list[i][1] : i \in DOMAIN list} |->
     LET last == CHOOSE i \in DOMAIN list :
                   /\ list[i][1] = k
                   /\ \A j \in DOMAIN list : list[j][1] = k => j <= i
     IN  list[last][2]]

\* query_string, with the ValueError of dict() as raises.
query_string_raises(query) == Len(query) > 0 /\ dict_raises(query_pieces(query))

query_string(query) ==
  IF Len(query) > 0 THEN dict(query_pieces(query)) ELSE dict(<< >>)

\* dict.items()
items(d) == {<<k, d[k]>> : k \in DOMAIN d}

\* sorted(...) of a finite set of (key, value) tuples, as a list.
RECURSIVE sorted_items(_)
sorted_items(S) ==
  IF S = {} THEN << >>
  ELSE LET m == CHOOSE x \in S : \A y \in S \ {x} : PairLess(x, y)
       IN  << m >> \o sorted_items(S \ {m})

canonical_query_string(d) ==
  LET ps == sorted_items(items(d))
  IN  join(<< Ord("&") >>, [i \in DOMAIN ps |-> join(<< Ord("=") >>, ps[i])])

\* setup_headers that writes the security token header whatever the token.
setup_headers_token_always(self, headers, host) ==
  LET h1 == IF ~contains(headers, HOST) THEN setitem(headers, HOST, host) ELSE headers
      h2 == IF ~contains(h1, CONTENT_TYPE)
            THEN setitem(h1, CONTENT_TYPE, DefaultContentType) ELSE h1
      h3 == IF ~contains(h2, USER_AGENT)
            THEN setitem(h2, USER_AGENT, DefaultUserAgent) ELSE h2
      h4 == setitem(h3, SECURITY_TOKEN,
                    IF self.aws_session_token = None THEN << >> ELSE self.aws_session_token)
  IN  setitem(h4, AMZ_DATE, self.amzdate)

\* setup_headers that sets Content-Type and User-Agent over the caller's.
setup_headers_overwriting(self, headers, host) ==
  LET h1 == IF ~contains(headers, HOST) THEN setitem(headers, HOST, host) ELSE headers
      h2 == setitem(h1, CONTENT_TYPE, DefaultContentType)
      h3 == setitem(h2, USER_AGENT, DefaultUserAgent)
      h4 == IF Truthy(self.aws_session_token)
            THEN setitem(h3, SECURITY_TOKEN, self.aws_session_token) ELSE h3
  IN  setitem(h4, AMZ_DATE, self.amzdate)

\* Setup Headers.
setup_headers(self, headers, host) ==
  LET h1 == IF ~contains(headers, HOST) THEN setitem(headers, HOST, host) ELSE headers
      h2 == IF ~contains(h1, CONTENT_TYPE)
            THEN setitem(h1, CONTENT_TYPE, DefaultContentType) ELSE h1
      h3 == IF ~contains(h2, USER_AGENT)
            THEN setitem(h2, USER_AGENT, DefaultUserAgent) ELSE h2
      h4 == IF Truthy(self.aws_session_token)
            THEN setitem(h3, SECURITY_TOKEN, self.aws_session_token) ELSE h3
  IN  setitem(h4, AMZ_DATE, self.amzdate)

\* payload_hash that hashes the text of a missing body.
payload_hash_of_repr(method, body) ==
  IF method = GET THEN sha256_hexdigest(encode(<< >>))
  ELSE IF body.type = "bytes" THEN sha256_hexdigest(body.data)
       ELSE IF body.type = "str" THEN sha256_hexdigest(encode(body.data))
       ELSE sha256_hexdigest(encode(Str(<<"N","o","n","e">>)))

\* Create payload hash (hash of the request body content).  A body is
\* [type, data] with type "NoneType", "str" or "bytes".
payload_hash(method, body) ==
  IF method = GET THEN sha256_hexdigest(encode(<< >>))
  ELSE IF body.type # "NoneType" /\ body.data # << >>
       THEN IF body.type = "bytes" THEN sha256_hexdigest(body.data)
            ELSE sha256_hexdigest(encode(body.data))
       ELSE sha256_hexdigest(<< >>)

\* headers_to_sign with the names filtered as written on the request, not
\* lowercased.
headers_to_sign_as_written(headers) ==
  sorted({h \in keys(headers) : startswith(h, AMZ_PREFIX) \/ h = host_name})

\* headers_to_sign with every x- header selected.
headers_to_sign_any_x(headers) ==
  sorted({h \in {lower(H) : H \in keys(headers)} :
            startswith(h, Str(<<"x","-">>)) \/ h = host_name})

headers_to_sign(headers) ==
  sorted({h \in {lower(H) : H \in keys(headers)} :
            startswith(h, AMZ_PREFIX) \/ h = host_name})

canonical_headers(headers, names) ==
  join(<< >>, [i \in DOMAIN names |->
                 join(<< Ord(":") >>, << names[i], getitem(headers, names[i]) >>) \o << NL >>])

signed_headers(names) == join(<< Ord(";") >>, names)

canonical_request(method, uri, cqs, ch, sh, ph) ==
  join(<< NL >>, << method, uri, cqs, ch, sh, ph >>)

\* credential_scope opened by the full timestamp.
credential_scope_of_amzdate(self) ==
  join(<< Ord("/") >>, << self.amzdate, self.region, self.service, aws4_request >>)

credential_scope(self) ==
  join(<< Ord("/") >>, << self.datestamp, self.region, self.service, aws4_request >>)

string_to_sign(self, scope, creq) ==
  join(<< NL >>, << ALGORITHM, self.amzdate, scope, sha256_hexdigest(encode(creq)) >>)

\* def sign(key, msg)
sign(key, msg) == hmac_digest(key, encode(msg))

\* key_signing with the service keyed in before the region.
key_signing_service_first(self) ==
  LET key_date   == sign(encode(AWS4 \o self.aws_secret_access_key), self.datestamp)
      k_service  == sign(key_date, self.service)
      key_region == sign(k_service, self.region)
  IN  sign(key_region, aws4_request)

key_signing(self) ==
  LET key_date   == sign(encode(AWS4 \o self.aws_secret_access_key), self.datestamp)
      key_region == sign(key_date, self.region)
      k_service  == sign(key_region, self.service)
  IN  sign(k_service, aws4_request)

signature(self, sts) == hmac_hexdigest(key_signing(self), encode(sts))

authorization(self, scope, sh, sig) ==
  Str(<<"A","W","S","4","-","H","M","A","C","-","S","H","A","2","5","6"," ",
        "C","r","e","d","e","n","t","i","a","l","=">>)
    \o self.aws_access_key_id \o << Ord("/") >> \o scope
    \o Str(<<","," ","S","i","g","n","e","d","H","e","a","d","e","r","s","=">>) \o sh
    \o Str(<<","," ","S","i","g","n","a","t","u","r","e","=">>) \o sig

\* __call__ on a request whose query can be read, from line 50 to the
\* return, for the timestamp the signer object holds: the request with its
\* headers set.
AWSSigV4_call(self, r) ==
  LET parsed == urlparse(r.url)
      h5     == setup_headers(self, r.headers, parsed.hostname)
      cqs    == canonical_query_string(query_string(parsed.query))
      ph     == payload_hash(r.method, r.body)
      h6     == setitem(h5, CONTENT_SHA256, ph)
      names  == headers_to_sign(h6)
      ch     == canonical_headers(h6, names)
      sh     == signed_headers(names)
      creq   == canonical_request(r.method, parsed.path, cqs, ch, sh, ph)
      scope  == credential_scope(self)
      sts    == string_to_sign(self, scope, creq)
      sig    == signature(self, sts)
  IN  [r EXCEPT !.headers = setitem(h6, AUTHORIZATION, authorization(self, scope, sh, sig))]

-----------------------------------------------------------------------------
(* The inputs: constructor arguments, clock readings and requests. *)

\* The most name=value components in the query of a request URL.
MaxParams == 2

\* SPAPI.get_auth builds every signer for this service.
SERVICE == Str(<<"e","x","e","c","u","t","e","-","a","p","i">>)

\* MARKETPLACES["North America"]
Region == Str(<<"u","s","-","e","a","s","t","-","1">>)

Endpoint ==
  Str(<<"h","t","t","p","s",":","/","/","s","e","l","l","i","n","g","p","a","r","t","n","e","r",
        "a","p","i","-","n","a",".","a","m","a","z","o","n",".","c","o","m">>)

OrdersPath == Str(<<"/","o","r","d","e","r","s","/","v","0","/","o","r","d","e","r","s">>)

KwKeys == {"region", "aws_access_key_id", "aws_session_token", "aws_secret_access_key"}

KwValue(key) ==
  CASE key = "region"                -> Region
    [] key = "aws_access_key_id"     -> Str(<<"A","K","I","D">>)
    [] key = "aws_session_token"     -> Str(<<"F","w","o","G","Z","X">>)
    [] key = "aws_secret_access_key" -> Str(<<"w","J","a","l","r">>)

\* Every key is left out, None, empty or set.
Kwargs ==
  UNION {{kw \in [D -> {None, << >>} \cup {KwValue(k) : k \in KwKeys}] :
            \A k \in D : kw[k] \in {None, << >>, KwValue(k)}} : D \in SUBSET KwKeys}

\* datetime.datetime.utcnow()
Times ==
  { [year |-> 2026, month |-> 11, day |-> 1, hour |-> 21, minute |-> 43, second |-> 7],
    [year |-> 2026, month |-> 11, day |-> 2, hour |-> 0, minute |-> 0, second |-> 59] }

POST == Str(<<"P","O","S","T">>)

\* The components a query is made of: well formed ones, one whose name has
\* a space the way requests encodes the params of make_request ("+"), one
\* without "=", one with two "=" and the empty one of "a=1&&b=2".
Components ==
  { Str(<<"a","=","1">>), Str(<<"a","=","2">>), Str(<<"b","=","2">>), Str(<<"B","=","0">>),
    Str(<<"c","+","d","=","1">>),
    Str(<<"a">>), Str(<<"a","=","1","=","2">>), << >> }

QueryLists == UNION {[1..n -> Components] : n \in 0..MaxParams}

UrlAt(path, query) ==
  Endpoint \o path \o (IF query = << >> THEN << >> ELSE << Ord("?") >> \o query)

Url(query) == UrlAt(OrdersPath, query)

\* Headers a caller may have put on the request, with the values it gave.
CallerHeaders ==
  { [key |-> HOST, value |-> Str(<<"p","r","o","x","y",".","l","o","c","a","l">>)],
    [key |-> CONTENT_TYPE,
     value |-> Str(<<"a","p","p","l","i","c","a","t","i","o","n","/","j","s","o","n">>)],
    [key |-> USER_AGENT, value |-> Str(<<"c","u","r","l">>)],
    [key |-> Str(<<"X","-","A","m","z","-","D","a","t","e">>),
     value |-> Str(<<"2","0","2","0","0","1","0","1","T","0","0","0","0","0","0","Z">>)],
    [key |-> Str(<<"X","-","C","u","s","t","o","m">>), value |-> Str(<<"1">>)],
    [key |-> SECURITY_TOKEN, value |-> Str(<<"s","t","a","l","e">>)],
    [key |-> Str(<<"X","-","A","m","z","-","M","e","t","a">>), value |-> Str(<<"m"," ">>)],
    [key |-> Str(<<"x","-","a","m","z","-","a","c","c","e","s","s","-","t","o","k","e","n">>),
     value |-> Str(<<"A","t","z","a">>)] }

HeaderDict(entries) ==
  [h \in {lower(e.key) : e \in entries} |->
     CHOOSE e \in entries : lower(e.key) = h]

\* SPAPI.get_headers: what make_request puts on every request.
AccessTokenHeaders ==
  HeaderDict({e \in CallerHeaders : startswith(lower(e.key), AMZ_PREFIX \o Str(<<"a","c">>))})

NoBody == [type |-> "NoneType", data |-> << >>]

Bodies ==
  {NoBody} \cup
  {[type |-> t, data |-> d] : t \in {"str", "bytes"}, d \in {<< >>, Str(<<"{","}">>), << 233 >>}}

\* The requests signed: every query on a GET as make_request sends it,
\* every set of caller headers, every body under both methods, and a URL
\* that ends after the host.
Requests ==
  {[method |-> GET, url |-> Url(join(<< Ord("&") >>, q)),
    headers |-> AccessTokenHeaders, body |-> NoBody] : q \in QueryLists}
  \cup
  {[method |-> GET, url |-> Url(Str(<<"b","=","2","&","a","=","1">>)),
    headers |-> HeaderDict(hs), body |-> NoBody] : hs \in SUBSET CallerHeaders}
  \cup
  {[method |-> m, url |-> Url(<< >>), headers |-> AccessTokenHeaders, body |-> b] :
     m \in {GET, POST}, b \in Bodies}
  \cup
  {[method |-> GET, url |-> UrlAt(<< >>, q), headers |-> AccessTokenHeaders, body |-> NoBody] :
     q \in {<< >>, Str(<<"a","=","1">>)}}

-----------------------------------------------------------------------------
(* The request layer: call_sp_api_method of AmazonRepository and of        *)
(* amazon_methods, and AmazonRepository.get_orders.  A Python object is a  *)
(* record of its type and its value.                                       *)

PyNone == [type |-> "NoneType", value |-> << >>]

PyStr(s) == [type |-> "str", value |-> s]

PyList(l) == [type |-> "list", value |-> l]

PyDict(d) == [type |-> "dict", value |-> d]

\* A requests.Response whose body is the JSON text of the object.
PyResponse(json) == [type |-> "Response", value |-> json]

\* An int and a bool hold their number, False being 0.
PyInt(n) == [type |-> "int", value |-> << n >>]

PyBool(b) == [type |-> "bool", value |-> << IF b THEN 1 ELSE 0 >>]

\* not obj
Falsy(obj) ==
  \/ obj.type = "NoneType"
  \/ obj.type \in {"str", "list"} /\ obj.value = << >>
  \/ obj.type \in {"int", "bool"} /\ obj.value = << 0 >>

\* d.get(key) of a dict
dict_get(d, key) == IF key \in DOMAIN d.value THEN d.value[key] ELSE PyNone

\* The retry limits tried: max_retry_limit of AmazonSettings and
\* MAX_RETRY_LIMIT of config.
MaxRetry == 3

RetryLimits == 1 .. MaxRetry

\* The longest list of pages a seller's orders come in.
MaxPages == 2

Modules == {"amazon_repository", "amazon_methods"}

\* The errors the token endpoint answers with.
AuthErrors ==
  {[error |-> "invalid_grant", error_description |-> "The request has an invalid grant"],
   [error |-> "invalid_client", error_description |-> "Client authentication failed"]}

\* What sp_api_method(**kwargs) ends in other than a response: the
\* SPAPIError of get_access_token, or an exception of the HTTP transport.
Raised ==
  {[exception |-> "SPAPIError", error |-> e.error, error_description |-> e.error_description] :
     e \in AuthErrors}
  \cup {[exception |-> "ConnectionError", error |-> "", error_description |-> ""]}

NextTokenOf(i) == PyStr(<< Ord("t"), Ord("0") + i >>)

\* Page i of n of the orders: two orders, and a NextToken unless it is the
\* last page.
Page(i, n) ==
  PyDict(IF i < n
         THEN [Orders |-> PyList(<< 2 * i - 1, 2 * i >>), NextToken |-> NextTokenOf(i)]
         ELSE [Orders |-> PyList(<< 2 * i - 1, 2 * i >>)])

Pages(n) == [i \in 1 .. n |-> Page(i, n)]

\* The response of the Orders API to orders.get_orders(**kwargs): the page
\* after the one that carried next_token, the first one without a token.
get_orders_response(pages, kw) ==
  LET i == IF kw.next_token.type = "NoneType" THEN 1
           ELSE 1 + CHOOSE j \in DOMAIN pages :
                      dict_get(pages[j], "NextToken") = kw.next_token
  IN  PyResponse(PyDict([payload |-> pages[i]]))

\* The statuses the Orders API answers an unauthorized or a throttled
\* request with.
ErrorStatusCodes == {403, 429}

\* The response of the Orders API with an error status: its JSON object
\* holds the errors and no payload.
error_response(status_code) ==
  PyResponse(PyDict([errors |-> PyList(<< status_code >>)]))

\* The arguments of Orders.get_orders that its callers pass, at their
\* defaults.
NoKwargs ==
  [ created_after        |-> PyNone,
    order_statuses       |-> PyNone,
    fulfillment_channels |-> PyNone,
    max_results          |-> PyInt(100),
    next_token           |-> PyNone ]

\* order_statuses and fulfillment_channels of AmazonRepository.get_orders.
order_statuses ==
  PyList(<< Str(<<"P","e","n","d","i","n","g","A","v","a","i","l","a","b","i","l","i","t","y">>),
           Str(<<"P","e","n","d","i","n","g">>),
           Str(<<"U","n","s","h","i","p","p","e","d">>),
           Str(<<"P","a","r","t","i","a","l","l","y","S","h","i","p","p","e","d">>),
           Str(<<"S","h","i","p","p","e","d">>),
           Str(<<"I","n","v","o","i","c","e","U","n","c","o","n","f","i","r","m","e","d">>),
           Str(<<"C","a","n","c","e","l","e","d">>),
           Str(<<"U","n","f","u","l","f","i","l","l","a","b","l","e">>) >>)

fulfillment_channels ==
  PyList(<< Str(<<"F","B","A">>), Str(<<"S","e","l","l","e","r","F","u","l","f","i","l","l","e","d">>) >>)

\* MARKETPLACES["North America"]["US"]
marketplace_id == Str(<<"A","T","V","P","D","K","I","K","X","0","D","E","R">>)

\* f"{key}[{idx}]"
indexed(key, idx) == key \o "[" \o ToString(idx) \o "]"

\* list_to_dict(key, values, data), as the data it leaves.
list_to_dict(key, values, data) ==
  IF ~Falsy(values) /\ values.type = "list"
  THEN LET new == {indexed(key, idx) : idx \in 0 .. Len(values.value) - 1}
       IN  [k \in DOMAIN data \cup new |->
              IF k \in new
              THEN PyStr(values.value[1 + CHOOSE idx \in 0 .. Len(values.value) - 1 :
                                            indexed(key, idx) = k])
              ELSE data[k]]
  ELSE data

\* Util.remove_empty(dict)
remove_empty(d) == [k \in {key \in DOMAIN d : ~Falsy(d[key])} |-> d[k]]

\* Orders.get_orders(**kw) up to the request: the data it builds, and the
\* params of the request as make_request sends them.
get_orders_params(kw) ==
  LET data == [ CreatedAfter                    |-> kw.created_after,
                CreatedBefore                   |-> PyNone,
                LastUpdatedAfter                |-> PyNone,
                LastUpdatedBefore               |-> PyNone,
                BuyerEmail                      |-> PyNone,
                SellerOrderId                   |-> PyNone,
                MaxResultsPerPage               |-> kw.max_results,
                NextToken                       |-> kw.next_token,
                ActualFulfillmentSupplySourceId |-> PyNone,
                IsISPU                          |-> PyBool(FALSE),
                StoreChainStoreId               |-> PyNone ]
      d1   == list_to_dict("OrderStatuses", kw.order_statuses, data)
      d2   == list_to_dict("MarketplaceIds", PyNone, d1)
      d3   == list_to_dict("FulfillmentChannels", kw.fulfillment_channels, d2)
      d4   == list_to_dict("PaymentMethods", PyNone, d3)
      d5   == list_to_dict("EasyShipShipmentStatuses", PyNone, d4)
      d6   == list_to_dict("AmazonOrderIds", PyNone, d5)
      d7   == [k \in DOMAIN d6 \cup {"MarketplaceIds"} |->
                 IF k = "MarketplaceIds" THEN PyList(<< marketplace_id >>) ELSE d6[k]]
  IN  remove_empty(d7)

\* created_after, a date.
CreatedAfter == PyStr(Str(<<"2","0","2","6","-","1","0","-","0","1">>))

\* The locals of call_sp_api_method, and how it ended.
NoRetry ==
  [ pc          |-> "idle",      \* "idle", "loop", "returned" or "raised"
    module      |-> "",
    kwargs      |-> NoKwargs,
    pages       |-> << >>,       \* the pages the Orders API holds
    max_retries |-> 0,
    x           |-> 0,           \* the attempts made
    errors      |-> << >>,       \* error |-> error_description
    slept       |-> 0,           \* the seconds of time.sleep
    log         |-> << >>,       \* what each attempt ended in
    response    |-> PyNone,
    params      |-> << >>,       \* the params of the request of the last attempt
    return      |-> PyNone,
    exception   |-> "" ]

\* The locals of AmazonRepository.get_orders, and how it ended.
NoListing ==
  [ pc             |-> "idle",   \* "idle", "line 96", "line 111", "returned" or "raised"
    max_retry_limit |-> 0,       \* of the AmazonSettings
    pages          |-> << >>,    \* the pages the Orders API holds
    result         |-> << >>,
    orders_payload |-> PyNone,
    next_token     |-> PyNone,
    exception      |-> "" ]

\* for x in range(max_retries), entered.
call_sp_api_method(module, max_retries, pages, kw) ==
  [NoRetry EXCEPT !.pc = "loop", !.module = module, !.kwargs = kw, !.pages = pages,
                  !.max_retries = max_retries]

\* except sp_api.SPAPIError (amazon_repository), except Exception
\* (amazon_methods).
caught(module, raised) ==
  IF module = "amazon_repository" THEN raised.exception = "SPAPIError" ELSE TRUE

\* if e.error not in errors: errors[e.error] = e.error_description
record_error(errors, e) ==
  IF e.error \in DOMAIN errors THEN errors
  ELSE [k \in DOMAIN errors \cup {e.error} |->
          IF k = e.error THEN e.error_description ELSE errors[k]]

\* One pass of the loop whose sp_api_method(**kwargs) returns the response:
\* the function returns response.json() (amazon_repository) or the response
\* (amazon_methods).
try_return(r, response) ==
  [r EXCEPT !.x = @ + 1, !.log = Append(@, "Response"), !.pc = "returned",
            !.params = get_orders_params(r.kwargs),
            !.response = response,
            !.return = IF r.module = "amazon_repository" THEN response.value ELSE response]

\* One pass of the loop whose sp_api_method(**kwargs) raises: an exception
\* that is caught is followed by time.sleep(1) and continue, and the loop
\* that has run out falls through to the end of the function, which returns
\* None; another exception leaves the function.
try_except(r, raised) ==
  IF caught(r.module, raised)
  THEN [r EXCEPT !.x = @ + 1, !.log = Append(@, raised.exception),
                 !.params = get_orders_params(r.kwargs),
                 !.errors = IF r.module = "amazon_repository"
                            THEN record_error(@, raised) ELSE @,
                 !.slept = @ + 1,
                 !.pc = IF r.x + 1 = r.max_retries THEN "returned" ELSE "loop",
                 !.return = PyNone]
  ELSE [r EXCEPT !.x = @ + 1, !.log = Append(@, raised.exception),
                 !.params = get_orders_params(r.kwargs),
                 !.pc = "raised", !.exception = raised.exception]

\* get_orders from the return of call_sp_api_method on: .get("payload") at
\* line 102 only, then the body of the while loop.  The result is the frame
\* at the return, at the exception that leaves the function or at the call
\* of line 111.
get_orders_continue(l, returned) ==
  IF l.pc = "line 96" /\ returned.type # "dict"
  THEN [l EXCEPT !.pc = "raised", !.exception = "AttributeError"]
  ELSE LET orders_payload == IF l.pc = "line 96" THEN dict_get(returned, "payload")
                             ELSE returned
       IN  IF orders_payload.type # "dict"
           THEN [l EXCEPT !.pc = "raised", !.exception = "AttributeError",
                          !.orders_payload = orders_payload]
           ELSE IF dict_get(orders_payload, "Orders").type # "list"
           THEN [l EXCEPT !.pc = "raised", !.exception = "TypeError",
                          !.orders_payload = orders_payload]
           ELSE [l EXCEPT !.orders_payload = orders_payload,
                          !.result = @ \o dict_get(orders_payload, "Orders").value,
                          !.next_token = dict_get(orders_payload, "NextToken"),
                          !.pc = IF Falsy(dict_get(orders_payload, "NextToken"))
                                 THEN "returned" ELSE "line 111"]

-----------------------------------------------------------------------------
(* SPAPI.make_request: the token exchange, the role assumption and the     *)
(* signed request.                                                         *)

\* The most make_request calls made on an SPAPI object.
MaxCalls == 3

Digit(k) == Ord("0") + k

\* The attributes of the SPAPI object a signer is built from.
SPAPI_init ==
  [ aws_access_key |-> Str(<<"A","K","I","A">>),
    aws_secret_key |-> Str(<<"k","e","y">>),
    region         |-> Region,
    endpoint       |-> Endpoint ]

\* The k-th access token the token endpoint issues.
access_token(k) == Str(<<"A","t","z","a">>) \o << Digit(k) >>

\* The Credentials of the k-th assume_role response.
assume_role(k) ==
  [ AccessKeyId     |-> Str(<<"A","S","I","A">>) \o << Digit(k) >>,
    SecretAccessKey |-> Str(<<"w","J","a","l","r">>) \o << Digit(k) >>,
    SessionToken    |-> Str(<<"F","w","o","G","Z","X">>) \o << Digit(k) >> ]

\* get_auth with the long-term keys of the SPAPI object.
get_auth_long_term(self, credentials) ==
  AWSSigV4_init(SERVICE,
                [ aws_access_key_id     |-> self.aws_access_key,
                  aws_secret_access_key |-> self.aws_secret_key,
                  aws_session_token     |-> credentials.SessionToken,
                  region                |-> self.region ])

\* get_auth, from the Credentials of the assume_role response on.
get_auth(self, credentials) ==
  AWSSigV4_init(SERVICE,
                [ aws_access_key_id     |-> credentials.AccessKeyId,
                  aws_secret_access_key |-> credentials.SecretAccessKey,
                  aws_session_token     |-> credentials.SessionToken,
                  region                |-> self.region ])

ACCESS_TOKEN ==
  Str(<<"x","-","a","m","z","-","a","c","c","e","s","s","-","t","o","k","e","n">>)

\* get_headers, from the access token on.
get_headers(token) == HeaderDict({[key |-> ACCESS_TOKEN, value |-> token]})

\* What an exchange with a service leaves in the log: the make_request it
\* belongs to, the service, the access token it issued or was sent, the
\* access key id it issued and the Authorization it was sent (None for
\* what it has none of).
Event(call, service, token, key, auth) ==
  [call |-> call, service |-> service, access_token |-> token, access_key_id |-> key,
   authorization |-> auth]

\* The answers of the token endpoint: 200 with a token, 400 with an error.
StatusCodes == {200, 400}

-----------------------------------------------------------------------------
(* The state machine. *)

signing == <<pc, kwargs, signer, arg, time, request, frame>>

requests == <<retry, listing>>

callers == <<requests, client>>

threads == <<signers, calls>>

NoRequest == [method |-> None, url |-> None, headers |-> HeaderDict({}), body |-> NoBody]

NoTime == [year |-> 0, month |-> 0, day |-> 0, hour |-> 0, minute |-> 0, second |-> 0]

NoFrame ==
  [ query                  |-> None,
    canonical_query_string |-> None,
    payload_hash           |-> None,
    headers_to_sign        |-> << >>,
    canonical_headers      |-> None,
    signed_headers         |-> None,
    canonical_request      |-> None,
    credential_scope       |-> None,
    string_to_sign         |-> None,
    signature              |-> None ]

\* The SPAPI object between calls, the locals of make_request and what the
\* three services have seen.
NoClient ==
  [ pc      |-> "idle",   \* "idle", "get_headers", "get_auth", "request", "returned", "raised"
    calls   |-> 0,        \* the make_request calls begun
    tokens  |-> 0,        \* the access tokens issued
    roles   |-> 0,        \* the roles assumed
    headers |-> HeaderDict({}),
    auth    |-> AWSSigV4_init(None, << >>),
    sent    |-> NoRequest,
    exception |-> "",
    events  |-> << >> ]

-----------------------------------------------------------------------------
(* Signing calls that interleave.  A call is the run of __call__ by one    *)
(* thread, on its own request object and on a signer object; what a signer *)
(* object holds is seen by every call on it.                               *)

\* The threads that sign at a time.
Threads == {1, 2}

\* The requests the threads sign.
SignRequests ==
  {[method |-> GET, url |-> Url(Str(<<"a","=","1">>)),
    headers |-> AccessTokenHeaders, body |-> NoBody],
   [method |-> POST, url |-> Url(<< >>),
    headers |-> AccessTokenHeaders, body |-> [type |-> "str", data |-> Str(<<"{","}">>)]]}

\* The assume_role responses the signers are built from.
Roles == {1, 2}

NoSigner == AWSSigV4_init(None, << >>)

\* The locals of a call: its position, the signer object it runs on, the
\* request as passed and as it is now, and its clock reading.
NoCall ==
  [ pc          |-> "idle",
    self        |-> 0,
    arg         |-> NoRequest,
    request     |-> NoRequest,
    t           |-> NoTime,
    frame       |-> NoFrame,
    interleaved |-> FALSE ]   \* a step of this call was taken during another call

\* auth=self.get_auth(): the signer object of the request of thread p is a
\* new one, here the first signer object.
auth_of_first(p) == 1

\* auth=self.get_auth(): the signer object of the request of thread p is a
\* new one.
auth_of(p) == p

Init ==
  /\ pc = "start"
  /\ kwargs = << >>
  /\ signer = AWSSigV4_init(None, << >>)
  /\ arg = NoRequest
  /\ time = NoTime
  /\ request = NoRequest
  /\ frame = NoFrame
  /\ retry = NoRetry
  /\ listing = NoListing
  /\ client = NoClient
  /\ signers = [s \in Threads |-> NoSigner]
  /\ calls = [p \in Threads |-> NoCall]

\* AWSSigV4(service, **kwargs)
New(kw) ==
  /\ pc = "start"
  /\ kwargs' = kw
  /\ IF init_raises(kw)
     THEN /\ pc' = "KeyError"
          /\ signer' = signer
     ELSE /\ pc' = "constructed"
          /\ signer' = AWSSigV4_init(SERVICE, kw)
  /\ UNCHANGED <<arg, time, request, frame>>
  /\ UNCHANGED <<callers, threads>>

\* signer(r) at clock reading t.  Each local of the method is bound once, in
\* the order the method assigns it.
Call(r, t) ==
  /\ pc = "constructed"
  /\ UNCHANGED kwargs
  /\ UNCHANGED <<callers, threads>>
  /\ arg' = r
  /\ time' = t
  /\ LET self   == [signer EXCEPT !.amzdate = strftime_amzdate(t),
                                  !.datestamp = strftime_date(t)]
         parsed == urlparse(r.url)
     IN  /\ signer' = self
         /\ IF query_string_raises(parsed.query)
            THEN /\ pc' = "ValueError"
                 /\ request' = r
                 /\ frame' = [NoFrame EXCEPT !.query = parsed.query]
            ELSE \E h5 \in {setup_headers(self, r.headers, parsed.hostname)} :
                 \E cqs \in {canonical_query_string(query_string(parsed.query))} :
                 \E ph \in {payload_hash(r.method, r.body)} :
                 \E h6 \in {setitem(h5, CONTENT_SHA256, ph)} :
                 \E names \in {headers_to_sign(h6)} :
                 \E ch \in {canonical_headers(h6, names)} :
                 \E sh \in {signed_headers(names)} :
                 \E creq \in {canonical_request(r.method, parsed.path, cqs, ch, sh, ph)} :
                 \E scope \in {credential_scope(self)} :
                 \E sts \in {string_to_sign(self, scope, creq)} :
                 \E sig \in {signature(self, sts)} :
                   /\ pc' = "returned"
                   /\ request' =
                        [r EXCEPT !.headers =
                           setitem(h6, AUTHORIZATION, authorization(self, scope, sh, sig))]
                   /\ frame' =
                        [ query                  |-> parsed.query,
                          canonical_query_string |-> cqs,
                          payload_hash           |-> ph,
                          headers_to_sign        |-> names,
                          canonical_headers      |-> ch,
                          signed_headers         |-> sh,
                          canonical_request      |-> creq,
                          credential_scope       |-> scope,
                          string_to_sign         |-> sts,
                          signature              |-> sig ]

Next ==
  \/ \E kw \in Kwargs : New(kw)
  \/ \E r \in Requests, t \in Times : Call(r, t)

Spec == Init /\ [][Next]_vars

-----------------------------------------------------------------------------
(* The state machine of the request layer. *)

\* call_sp_api_method(sp_api_method=orders.get_orders, created_after=...)
\* of either module, on its own.
CallSpApiMethod(module, max_retries, n) ==
  /\ retry.pc = "idle"
  /\ listing.pc = "idle"
  /\ retry' = call_sp_api_method(module, max_retries, Pages(n),
                                 [NoKwargs EXCEPT !.created_after = CreatedAfter,
                                                  !.max_results = PyInt(50)])
  /\ UNCHANGED <<listing, signing, client, threads>>

\* sp_api_method(**kwargs) returns the response of the Orders API.
Returns ==
  /\ retry.pc = "loop"
  /\ retry' = try_return(retry, get_orders_response(retry.pages, retry.kwargs))
  /\ UNCHANGED <<listing, signing, client, threads>>

\* sp_api_method(**kwargs) returns a response of the Orders API with an
\* error status, as make_request returns every response.
ReturnsError(status_code) ==
  /\ retry.pc = "loop"
  /\ retry' = try_return(retry, error_response(status_code))
  /\ UNCHANGED <<listing, signing, client, threads>>

\* sp_api_method(**kwargs) raises.
Raises(raised) ==
  /\ retry.pc = "loop"
  /\ retry' = try_except(retry, raised)
  /\ UNCHANGED <<listing, signing, client, threads>>

\* AmazonRepository(settings).get_orders(created_after), up to the call of
\* line 96.
GetOrders(max_retry_limit, n) ==
  /\ retry.pc = "idle"
  /\ listing.pc = "idle"
  /\ listing' = [NoListing EXCEPT !.pc = "line 96", !.max_retry_limit = max_retry_limit,
                                  !.pages = Pages(n)]
  /\ retry' = call_sp_api_method("amazon_repository", max_retry_limit, Pages(n),
                                 [NoKwargs EXCEPT !.created_after = CreatedAfter,
                                                  !.order_statuses = order_statuses,
                                                  !.fulfillment_channels = fulfillment_channels,
                                                  !.max_results = PyInt(50)])
  /\ UNCHANGED <<signing, client, threads>>

\* get_orders after call_sp_api_method has ended: an exception of the call
\* leaves get_orders too; a return runs get_orders up to its next call, its
\* return or its exception.
GetOrdersResume ==
  /\ listing.pc \in {"line 96", "line 111"}
  /\ retry.pc \in {"returned", "raised"}
  /\ IF retry.pc = "raised"
     THEN /\ listing' = [listing EXCEPT !.pc = "raised", !.exception = retry.exception]
          /\ retry' = retry
     ELSE /\ listing' = get_orders_continue(listing, retry.return)
          /\ retry' = IF listing'.pc = "line 111"
                      THEN call_sp_api_method("amazon_repository", listing.max_retry_limit,
                                              listing.pages,
                                              [NoKwargs EXCEPT
                                                 !.created_after = CreatedAfter,
                                                 !.next_token = listing'.next_token])
                      ELSE retry
  /\ UNCHANGED <<signing, client, threads>>

NextRepository ==
  \/ \E m \in Modules, n \in RetryLimits, p \in 1 .. MaxPages : CallSpApiMethod(m, n, p)
  \/ \E n \in RetryLimits, p \in 1 .. MaxPages : GetOrders(n, p)
  \/ Returns
  \/ \E status_code \in ErrorStatusCodes : ReturnsError(status_code)
  \/ \E e \in Raised : Raises(e)
  \/ GetOrdersResume

SpecRepository == Init /\ [][NextRepository]_vars

-----------------------------------------------------------------------------
(* The state machine of make_request. *)

\* make_request(), up to the arguments of request(): the URL is built.
MakeRequest ==
  /\ client.pc \in {"idle", "returned", "raised"}
  /\ client.calls < MaxCalls
  /\ client' = [client EXCEPT !.pc = "get_headers", !.calls = @ + 1,
                              !.headers = NoClient.headers, !.auth = NoClient.auth,
                              !.sent = NoRequest, !.exception = ""]
  /\ UNCHANGED <<signing, requests, threads>>

\* headers=self.get_headers(): the POST to AUTH_URL, answered with the
\* status; another status than 200 raises SPAPIError.
GetHeaders(status_code) ==
  /\ client.pc = "get_headers"
  /\ IF status_code = 200
     THEN client' = [client EXCEPT
                       !.pc = "get_auth", !.tokens = @ + 1,
                       !.headers = get_headers(access_token(client.tokens + 1)),
                       !.events = Append(@, Event(client.calls, "LWA",
                                                  access_token(client.tokens + 1), None, None))]
     ELSE client' = [client EXCEPT
                       !.pc = "raised", !.exception = "SPAPIError",
                       !.events = Append(@, Event(client.calls, "LWA", None, None, None))]
  /\ UNCHANGED <<signing, requests, threads>>

\* auth=self.get_auth(): assume_role, which answers with Credentials or
\* raises, and the new AWSSigV4.
GetAuth(assumed) ==
  /\ client.pc = "get_auth"
  /\ IF assumed
     THEN client' = [client EXCEPT
                       !.pc = "request", !.roles = @ + 1,
                       !.auth = get_auth(SPAPI_init, assume_role(client.roles + 1)),
                       !.events = Append(@, Event(client.calls, "STS", None,
                                                  assume_role(client.roles + 1).AccessKeyId,
                                                  None))]
     ELSE client' = [client EXCEPT
                       !.pc = "raised", !.exception = "ClientError",
                       !.events = Append(@, Event(client.calls, "STS", None, None, None))]
  /\ UNCHANGED <<signing, requests, threads>>

\* request(...): the request is prepared, signed by auth at clock reading
\* t and sent, and the response is returned.
Request(method, t) ==
  /\ client.pc = "request"
  /\ \E self \in {[client.auth EXCEPT !.amzdate = strftime_amzdate(t),
                                      !.datestamp = strftime_date(t)]} :
     \E r \in {AWSSigV4_call(self, [method |-> method, url |-> Url(<< >>),
                                    headers |-> client.headers, body |-> NoBody])} :
       client' = [client EXCEPT
                    !.pc = "returned", !.auth = self, !.sent = r,
                    !.events = Append(@, Event(client.calls, "SP-API",
                                               getitem(r.headers, ACCESS_TOKEN), None,
                                               getitem(r.headers, AUTHORIZATION)))]
  /\ UNCHANGED <<signing, requests, threads>>

NextClient ==
  \/ MakeRequest
  \/ \E status_code \in StatusCodes : GetHeaders(status_code)
  \/ \E assumed \in BOOLEAN : GetAuth(assumed)
  \/ \E method \in {GET, POST}, t \in Times : Request(method, t)

SpecClient == Init /\ [][NextClient]_vars

-----------------------------------------------------------------------------
(* The state machine of interleaved signing calls. *)

Running(q) == calls[q].pc \notin {"idle", "returned"}

\* The calls after a step of call p that leaves its locals as c.
Stepped(p, c) ==
  [calls EXCEPT ![p] = [c EXCEPT !.interleaved = @ \/ \E q \in Threads \ {p} : Running(q)]]

\* Thread p passes request r to signer object s, which get_auth builds from
\* the k-th assume_role response unless the object exists.
Sign(p, s, k, r) ==
  /\ calls[p].pc = "idle"
  /\ signers' = IF signers[s] = NoSigner
                THEN [signers EXCEPT ![s] = get_auth(SPAPI_init, assume_role(k))]
                ELSE signers
  /\ calls' = [calls EXCEPT ![p] = [NoCall EXCEPT !.pc = "line 45", !.self = s,
                                                  !.arg = r, !.request = r]]
  /\ UNCHANGED <<signing, callers>>

\* t = datetime.datetime.utcnow(); self.amzdate = t.strftime("%Y%m%dT%H%M%SZ")
Line45(p, t) ==
  /\ calls[p].pc = "line 45"
  /\ signers' = [signers EXCEPT ![calls[p].self].amzdate = strftime_amzdate(t)]
  /\ calls' = Stepped(p, [calls[p] EXCEPT !.pc = "line 47", !.t = t])
  /\ UNCHANGED <<signing, callers>>

\* self.datestamp = t.strftime("%Y%m%d")
Line47(p) ==
  /\ calls[p].pc = "line 47"
  /\ signers' = [signers EXCEPT ![calls[p].self].datestamp = strftime_date(calls[p].t)]
  /\ calls' = Stepped(p, [calls[p] EXCEPT !.pc = "line 50"])
  /\ UNCHANGED <<signing, callers>>

\* Lines 50 to 68: the URL is parsed and the headers are set up; X-AMZ-Date
\* is self.amzdate.
Line50(p) ==
  /\ calls[p].pc = "line 50"
  /\ LET c      == calls[p]
         parsed == urlparse(c.request.url)
     IN  calls' = Stepped(p,
           [c EXCEPT !.pc = "line 74",
                     !.frame.query = parsed.query,
                     !.request.headers =
                        setup_headers(signers[c.self], c.request.headers, parsed.hostname)])
  /\ UNCHANGED <<signers, signing, callers>>

\* Lines 74 to 102: the canonical request and the credential scope, which
\* opens with self.datestamp.
Line74(p) ==
  /\ calls[p].pc = "line 74"
  /\ \E c \in {calls[p]} :
     \E cqs \in {canonical_query_string(query_string(c.frame.query))} :
     \E ph \in {payload_hash(c.request.method, c.request.body)} :
     \E h6 \in {setitem(c.request.headers, CONTENT_SHA256, ph)} :
     \E names \in {headers_to_sign(h6)} :
     \E ch \in {canonical_headers(h6, names)} :
     \E sh \in {signed_headers(names)} :
       calls' = Stepped(p,
         [c EXCEPT !.pc = "line 103",
                   !.request.headers = h6,
                   !.frame.canonical_query_string = cqs,
                   !.frame.payload_hash = ph,
                   !.frame.headers_to_sign = names,
                   !.frame.canonical_headers = ch,
                   !.frame.signed_headers = sh,
                   !.frame.canonical_request =
                      canonical_request(c.request.method, urlparse(c.request.url).path,
                                        cqs, ch, sh, ph),
                   !.frame.credential_scope = credential_scope(signers[c.self])])
  /\ UNCHANGED <<signers, signing, callers>>

\* Lines 103 and 104: the string-to-sign, whose timestamp is self.amzdate.
Line103(p) ==
  /\ calls[p].pc = "line 103"
  /\ LET c == calls[p]
     IN  calls' = Stepped(p,
           [c EXCEPT !.pc = "line 107",
                     !.frame.string_to_sign =
                        string_to_sign(signers[c.self], c.frame.credential_scope,
                                       c.frame.canonical_request)])
  /\ UNCHANGED <<signers, signing, callers>>

\* Lines 107 to 114: the signing key, derived from self.datestamp, and the
\* signature.
Line107(p) ==
  /\ calls[p].pc = "line 107"
  /\ LET c == calls[p]
     IN  calls' = Stepped(p,
           [c EXCEPT !.pc = "line 117",
                     !.frame.signature = signature(signers[c.self], c.frame.string_to_sign)])
  /\ UNCHANGED <<signers, signing, callers>>

\* Lines 117 to 119: the Authorization header and the return.
Line117(p) ==
  /\ calls[p].pc = "line 117"
  /\ LET c == calls[p]
     IN  calls' = Stepped(p,
           [c EXCEPT !.pc = "returned",
                     !.request.headers =
                        setitem(@, AUTHORIZATION,
                                authorization(signers[c.self], c.frame.credential_scope,
                                              c.frame.signed_headers, c.frame.signature))])
  /\ UNCHANGED <<signers, signing, callers>>

Steps(p) ==
  \/ \E t \in Times : Line45(p, t)
  \/ Line47(p)
  \/ Line50(p)
  \/ Line74(p)
  \/ Line103(p)
  \/ Line107(p)
  \/ Line117(p)

\* Every call on a signer object of its own.
NextOwn ==
  \/ \E p \in Threads, k \in Roles, r \in SignRequests : Sign(p, auth_of(p), k, r)
  \/ \E p \in Threads : Steps(p)

SpecOwn == Init /\ [][NextOwn]_vars

\* Every call on one signer object.
NextShared ==
  \/ \E p \in Threads, k \in Roles, r \in SignRequests : Sign(p, 1, k, r)
  \/ \E p \in Threads : Steps(p)

SpecShared == Init /\ [][NextShared]_vars

-----------------------------------------------------------------------------
(* Reading the signer's output back. *)

Lines(s) == split(s, NL)

\* The i-th of the three fields of an Authorization value (Credential,
\* SignedHeaders, Signature): the text after its "=".
AuthField(auth, i) ==
  LET part == split(auth, Ord(","))[i]
  IN  SubSeq(part, IndexOf(part, Ord("=")) + 1, Len(part))

\* The credential scope of an Authorization value: the Credential field
\* after the access key id and its "/".
AuthScope(auth) ==
  LET cred == AuthField(auth, 1)
  IN  SubSeq(cred, IndexOf(cred, Ord("/")) + 1, Len(cred))

\* The request as the signature covers it: every header but Authorization,
\* which is written after signing.
SignedRequestHeaders ==
  [h \in DOMAIN request.headers \ {lower(AUTHORIZATION)} |-> request.headers[h]]

-----------------------------------------------------------------------------
(* The timestamp of a call. *)

\* C1: in a returned request the X-AMZ-Date header is the timestamp of the
\* clock reading of the call and equals the second line of the
\* string-to-sign; the date that opens the credential scope is the first
\* eight characters of that timestamp; and the scope in the Credential
\* field of Authorization is the third line of the string-to-sign, which is
\* date/region/service/aws4_request.
C1_SingleTimestamp ==
  pc = "returned" =>
    LET sts   == Lines(frame.string_to_sign)
        xdate == getitem(request.headers, AMZ_DATE)
        auth  == getitem(request.headers, AUTHORIZATION)
    IN  /\ xdate = strftime_amzdate(time)
        /\ sts[2] = xdate
        /\ split(sts[3], Ord("/"))[1] = SubSeq(xdate, 1, 8)
        /\ AuthScope(auth) = sts[3]
        /\ sts[3] = join(<< Ord("/") >>,
                         << SubSeq(xdate, 1, 8), signer.region, signer.service, aws4_request >>)

\* A returned request that came in with another X-Amz-Date than the call's.
C1_Witness ==
  /\ pc = "returned"
  /\ contains(arg.headers, AMZ_DATE)
  /\ getitem(arg.headers, AMZ_DATE) # getitem(request.headers, AMZ_DATE)
  /\ time.day = 2

-----------------------------------------------------------------------------
(* The canonical query string. *)

\* The name=value components of the query of the request URL, in URL order.
UrlComponents == IF frame.query = << >> THEN << >> ELSE split(frame.query, Ord("&"))

\* The components of the canonical query string.
CanonicalComponents ==
  IF frame.canonical_query_string = << >> THEN << >>
  ELSE split(frame.canonical_query_string, Ord("&"))

NameOf(component) == split(component, Ord("="))[1]

\* The components of a list are in ascending order of (name, value).
Ascending(list) ==
  \A i, j \in DOMAIN list :
    i < j => ~PairLess(split(list[j], Ord("=")), split(list[i], Ord("=")))

\* C2: when two or more components of the URL query have the same name,
\* each of them is a component of the canonical query string as often as
\* it is one of the URL, and the canonical components are in ascending
\* order of name, then value.
C2_DuplicatesKept ==
  pc = "returned" =>
    \A i \in DOMAIN UrlComponents :
      (\E j \in DOMAIN UrlComponents : j # i /\ NameOf(UrlComponents[j]) = NameOf(UrlComponents[i]))
        => /\ Cardinality({k \in DOMAIN CanonicalComponents :
                             CanonicalComponents[k] = UrlComponents[i]})
                = Cardinality({k \in DOMAIN UrlComponents : UrlComponents[k] = UrlComponents[i]})
           /\ Ascending(CanonicalComponents)

\* The permutations of a list.
Reorderings(list) ==
  {[i \in DOMAIN list |-> list[f[i]]] :
     f \in {g \in [DOMAIN list -> DOMAIN list] : \A a, b \in DOMAIN list : a # b => g[a] # g[b]}}

\* C3: every URL whose query is a permutation of the components of this
\* request's query canonicalizes to this request's canonical query string,
\* whose components are in ascending order of name; a URL with no query
\* gives the empty string.
C3_OrderIndependent ==
  pc = "returned" =>
    /\ \A other \in Reorderings(UrlComponents) :
         LET q == join(<< Ord("&") >>, other)
         IN  /\ ~query_string_raises(q)
             /\ canonical_query_string(query_string(q)) = frame.canonical_query_string
    /\ \A i, j \in DOMAIN CanonicalComponents :
         i < j => ~StrLess(NameOf(CanonicalComponents[j]), NameOf(CanonicalComponents[i]))
    /\ frame.query = << >> => frame.canonical_query_string = << >>

-----------------------------------------------------------------------------
(* The signed headers. *)

\* The lowercased names of the headers the signature must cover.
MustSign ==
  {h \in {lower(H) : H \in keys(SignedRequestHeaders)} :
     startswith(h, AMZ_PREFIX) \/ h = host_name}

Range(list) == {list[i] : i \in DOMAIN list}

\* C4: the names in the SignedHeaders field of Authorization are exactly
\* the lowercased names of the request's headers that start with x-amz- or
\* are host, each once and in ascending order; the lines of the canonical
\* headers block start with the same names in the same order; and no other
\* header name is among them.
C4_SignedHeadersExact ==
  pc = "returned" =>
    LET names == split(AuthField(getitem(request.headers, AUTHORIZATION), 2), Ord(";"))
        block == Lines(frame.canonical_headers)
    IN  /\ Range(names) = MustSign
        /\ \A i, j \in DOMAIN names : i < j => StrLess(names[i], names[j])
        /\ Len(block) = Len(names) + 1
        /\ block[Len(block)] = << >>
        /\ \A i \in DOMAIN names :
             SubSeq(block[i], 1, IndexOf(block[i], Ord(":"))) = names[i] \o << Ord(":") >>
        /\ lower(CONTENT_TYPE) \notin Range(names)
        /\ lower(USER_AGENT) \notin Range(names)
        /\ {lower(AMZ_DATE), lower(CONTENT_SHA256), host_name} \subseteq Range(names)

\* A returned request with signed and unsigned caller headers and the
\* security token the signer added.
C4_Witness ==
  /\ pc = "returned"
  /\ contains(arg.headers, CONTENT_TYPE)
  /\ contains(arg.headers, Str(<<"X","-","C","u","s","t","o","m">>))
  /\ ~contains(arg.headers, SECURITY_TOKEN)
  /\ contains(request.headers, SECURITY_TOKEN)
  /\ Len(frame.headers_to_sign) = 5

XCustom == Str(<<"X","-","C","u","s","t","o","m">>)

\* The request of the header filtering test: Content-Type, X-Amz-Date, Host
\* and X-Custom, signed by a signer without session token.
HeaderFilteringCase ==
  /\ pc = "returned"
  /\ DOMAIN arg.headers = {lower(CONTENT_TYPE), lower(AMZ_DATE), lower(HOST), lower(XCustom)}
  /\ ~Truthy(signer.aws_session_token)

SignedHeaderNames == split(AuthField(getitem(request.headers, AUTHORIZATION), 2), Ord(";"))

\* C5 as claimed: in the header filtering case the signed headers are host
\* and x-amz-date and nothing else.
C5_OnlyHostAndDate ==
  HeaderFilteringCase => Range(SignedHeaderNames) = {host_name, lower(AMZ_DATE)}

\* C5, amended: in the header filtering case the signed headers are host,
\* x-amz-content-sha256 (which the signer adds before it selects) and
\* x-amz-date, in this order, and nothing else.
C5_HostHashAndDate ==
  HeaderFilteringCase =>
    SignedHeaderNames = << host_name, lower(CONTENT_SHA256), lower(AMZ_DATE) >>

C5_Witness ==
  /\ HeaderFilteringCase
  /\ lower(XCustom) \notin Range(SignedHeaderNames)
  /\ contains(request.headers, XCustom)

-----------------------------------------------------------------------------
(* The payload hash. *)

\* The body of the request as passed, as bytes.
RawBody ==
  IF arg.body.type = "str" THEN encode(arg.body.data) ELSE arg.body.data

\* C6: the payload hash is the SHA-256 of the bytes of the body, and of no
\* bytes for a GET and for a body that is None or empty; it is the value of
\* the x-amz-content-sha256 header and the last line of the canonical
\* request.
C6_PayloadHash ==
  pc = "returned" =>
    LET creq == Lines(frame.canonical_request)
    IN  /\ frame.payload_hash =
             IF arg.method = GET \/ RawBody = << >>
             THEN sha256_hexdigest(<< >>) ELSE sha256_hexdigest(RawBody)
        /\ getitem(request.headers, CONTENT_SHA256) = frame.payload_hash
        /\ creq[Len(creq)] = frame.payload_hash

\* A returned POST without body, whose hash is that of a GET.
C6_Witness ==
  /\ pc = "returned"
  /\ arg.method = POST
  /\ arg.body = NoBody
  /\ getitem(request.headers, CONTENT_SHA256) = payload_hash(GET, NoBody)

-----------------------------------------------------------------------------
(* The session token. *)

TokenSigned == lower(SECURITY_TOKEN) \in Range(SignedHeaderNames)

\* C7 as claimed: with a session token the request carries it in
\* x-amz-security-token and the header is signed; without one the request
\* has no such header and none is signed.
C7_TokenHeaderIffToken ==
  pc = "returned" =>
    IF Truthy(signer.aws_session_token)
    THEN /\ contains(request.headers, SECURITY_TOKEN)
         /\ getitem(request.headers, SECURITY_TOKEN) = signer.aws_session_token
         /\ TokenSigned
    ELSE /\ ~contains(request.headers, SECURITY_TOKEN)
         /\ ~TokenSigned

\* C7, amended: with a session token as claimed; without one the signer
\* writes no x-amz-security-token header: the request has one only if it
\* came in with one, with the value it came in with, and it is signed
\* exactly when it is there.
C7_TokenHeaderFromSigner ==
  pc = "returned" =>
    IF Truthy(signer.aws_session_token)
    THEN /\ contains(request.headers, SECURITY_TOKEN)
         /\ getitem(request.headers, SECURITY_TOKEN) = signer.aws_session_token
         /\ TokenSigned
    ELSE /\ contains(request.headers, SECURITY_TOKEN) <=> contains(arg.headers, SECURITY_TOKEN)
         /\ contains(request.headers, SECURITY_TOKEN) =>
              request.headers[lower(SECURITY_TOKEN)] = arg.headers[lower(SECURITY_TOKEN)]
         /\ TokenSigned <=> contains(request.headers, SECURITY_TOKEN)

\* A request returned without the header by a signer whose token is empty.
C7_Witness ==
  /\ pc = "returned"
  /\ signer.aws_session_token = << >>
  /\ ~contains(request.headers, SECURITY_TOKEN)
  /\ ~TokenSigned

-----------------------------------------------------------------------------
(* The Authorization header. *)

\* C8: the Authorization value is the algorithm tag, Credential= access key
\* id / scope, SignedHeaders= and Signature=, where the signature is the
\* HMAC of the string-to-sign under the key derived from "AWS4" + secret by
\* date, region, service and "aws4_request" in this order, and the
\* string-to-sign is the tag, the timestamp, the scope and the SHA-256 of
\* the canonical request, one per line.
C8_Authorization ==
  pc = "returned" =>
    LET date     == strftime_date(time)
        scope    == date \o << Ord("/") >> \o signer.region \o << Ord("/") >> \o signer.service
                      \o << Ord("/") >> \o aws4_request
        kDate    == hmac_digest(encode(AWS4 \o signer.aws_secret_access_key), encode(date))
        kRegion  == hmac_digest(kDate, encode(signer.region))
        kService == hmac_digest(kRegion, encode(signer.service))
        kSigning == hmac_digest(kService, encode(aws4_request))
        sts      == ALGORITHM \o << NL >> \o strftime_amzdate(time) \o << NL >> \o scope
                      \o << NL >> \o sha256_hexdigest(encode(frame.canonical_request))
    IN  /\ frame.string_to_sign = sts
        /\ getitem(request.headers, AUTHORIZATION) =
             ALGORITHM \o Str(<<" ","C","r","e","d","e","n","t","i","a","l","=">>)
               \o signer.aws_access_key_id \o << Ord("/") >> \o scope
               \o Str(<<","," ","S","i","g","n","e","d","H","e","a","d","e","r","s","=">>)
               \o frame.signed_headers
               \o Str(<<","," ","S","i","g","n","a","t","u","r","e","=">>)
               \o hmac_hexdigest(kSigning, encode(sts))

\* A returned request signed under a region and a session token.
C8_Witness ==
  /\ pc = "returned"
  /\ signer.region = Region
  /\ Truthy(signer.aws_session_token)
  /\ AuthField(getitem(request.headers, AUTHORIZATION), 3) = frame.signature

-----------------------------------------------------------------------------
(* Errors. *)

Required == {"aws_access_key_id", "aws_secret_access_key", "region"}

\* C9 as claimed: the constructor raises, and leaves no signer, exactly
\* when the access key id, the secret access key or the region is not
\* supplied, None or empty; so a signer that exists has all three.
C9_FailFast ==
  /\ pc = "KeyError" =>
       /\ \E k \in Required : ~Truthy(get(kwargs, k))
       /\ signer = AWSSigV4_init(None, << >>)
  /\ pc \in {"constructed", "ValueError", "returned"} =>
       /\ \A k \in Required : Truthy(get(kwargs, k))
       /\ Truthy(signer.aws_access_key_id)
       /\ Truthy(signer.aws_secret_access_key)
       /\ Truthy(signer.region)

\* A component without "=" or with more than one.
Malformed(component) == Len(split(component, Ord("="))) # 2

\* How often x is an element of list.
Count(list, x) == Cardinality({i \in DOMAIN list : list[i] = x})

\* C10 as claimed: a call on a query with a malformed component ends in
\* ValueError, which is neither the KeyError of the constructor nor a
\* return, and leaves the request unsigned; and a returned request is
\* signed over the query components and the headers it carries.
C10_CannotSign ==
  /\ (pc \in {"ValueError", "returned"} /\ \E i \in DOMAIN UrlComponents : Malformed(UrlComponents[i]))
       => /\ pc = "ValueError"
          /\ request = arg
          /\ ~contains(request.headers, AUTHORIZATION)
  /\ pc = "returned" =>
       /\ \A i \in DOMAIN UrlComponents :
            Count(CanonicalComponents, UrlComponents[i]) = Count(UrlComponents, UrlComponents[i])
       /\ Range(SignedHeaderNames) = MustSign

-----------------------------------------------------------------------------
(* The text of the canonical request. *)

\* The characters RFC 3986 leaves unencoded.
Unreserved ==
  {Ord(c) : c \in {"a","b","c","d","e","f","g","h","i","j","k","l","m","n","o","p","q",
                   "r","s","t","u","v","w","x","y","z",
                   "A","B","C","D","E","F","G","H","I","J","K","L","M","N","O","P","Q",
                   "R","S","T","U","V","W","X","Y","Z",
                   "0","1","2","3","4","5","6","7","8","9","-",".","_","~"}}

\* C14 as claimed: the canonical query string of a returned request is
\* percent-encoded: each of its characters is an unreserved one, the "%" of
\* an escape or the "=" and "&" that join names and values, so that it has
\* no raw space and no "+" standing for one.
C14_PercentEncoded ==
  pc = "returned" =>
    \A i \in DOMAIN frame.canonical_query_string :
      /\ frame.canonical_query_string[i] \in Unreserved \cup {Ord("%"), Ord("="), Ord("&")}
      /\ frame.canonical_query_string[i] \notin {Ord(" "), Ord("+")}

Whitespace == {Ord(" "), 9}

\* The text without the whitespace at its ends.
Trimmed(s) ==
  LET inner == {i \in DOMAIN s : s[i] \notin Whitespace}
  IN  IF inner = {} THEN << >>
      ELSE SubSeq(s, CHOOSE i \in inner : \A j \in inner : i <= j,
                     CHOOSE i \in inner : \A j \in inner : j <= i)

\* C15 as claimed: the canonical headers block of a returned request has
\* one line per signed header, in the order of the signed header names;
\* each line is the lowercased name, ":" and the header's value without the
\* whitespace at its ends; and each line, the last one too, ends in a
\* newline.
C15_TrimmedHeaderLines ==
  pc = "returned" =>
    LET block == Lines(frame.canonical_headers)
        names == SignedHeaderNames
    IN  /\ Len(block) = Len(names) + 1
        /\ block[Len(block)] = << >>
        /\ \A i \in DOMAIN names :
             /\ names[i] = lower(names[i])
             /\ block[i] = names[i] \o << Ord(":") >>
                             \o Trimmed(getitem(request.headers, names[i]))

UpperChar(c) == IF c >= Ord("a") /\ c <= Ord("z") THEN c - 32 ELSE c

upper(s) == [i \in DOMAIN s |-> UpperChar(s[i])]

\* The URL of the request after the host, up to the query.
PathOf(url) ==
  LET rest  == SubSeq(url, Len(Str(<<"h","t","t","p","s",":","/","/">>)) + 1, Len(url))
      slash == IndexOf(rest, Ord("/"))
      mark  == IndexOf(rest, Ord("?"))
      stop  == IF mark = 0 THEN Len(rest) ELSE mark - 1
  IN  IF slash = 0 \/ slash > stop THEN << >> ELSE SubSeq(rest, slash, stop)

\* C16 as claimed: the canonical request of a returned request is the
\* method in upper case, the path of the URL or "/" when that path is
\* empty, the canonical query string, the canonical headers block, the
\* signed header list and the payload hash, in this order and joined by
\* single newlines.
C16_CanonicalRequest ==
  pc = "returned" =>
    frame.canonical_request =
      upper(request.method) \o << NL >>
        \o (IF PathOf(request.url) = << >> THEN << Ord("/") >> ELSE PathOf(request.url))
        \o << NL >> \o frame.canonical_query_string
        \o << NL >> \o frame.canonical_headers
        \o << NL >> \o frame.signed_headers
        \o << NL >> \o frame.payload_hash

-----------------------------------------------------------------------------
(* What signing changes. *)

\* The headers the signer sets on every request.
AlwaysPresent == {HOST, CONTENT_TYPE, USER_AGENT, AMZ_DATE, CONTENT_SHA256, AUTHORIZATION}

\* Signing leaves the method, the URL and the body alone; afterwards Host,
\* Content-Type, User-Agent, X-AMZ-Date, x-amz-content-sha256 and
\* Authorization are present; a Host, Content-Type or User-Agent the caller
\* sent keeps its value; and X-AMZ-Date, x-amz-content-sha256 and
\* Authorization carry the values of this call.
SigningSetsItsHeaders ==
  /\ request.method = arg.method
  /\ request.url = arg.url
  /\ request.body = arg.body
  /\ \A H \in AlwaysPresent : contains(request.headers, H)
  /\ \A H \in {HOST, CONTENT_TYPE, USER_AGENT} :
       contains(arg.headers, H) => getitem(request.headers, H) = getitem(arg.headers, H)
  /\ getitem(request.headers, AMZ_DATE) = strftime_amzdate(time)
  /\ getitem(request.headers, CONTENT_SHA256) = frame.payload_hash
  /\ AuthField(getitem(request.headers, AUTHORIZATION), 3) = frame.signature

\* The headers of the set, under the names and with the values the caller
\* sent, are the headers of the returned request outside the set.
Untouched(touched) ==
  LET others == DOMAIN request.headers \ {lower(H) : H \in touched}
  IN  /\ others = DOMAIN arg.headers \ {lower(H) : H \in touched}
      /\ \A h \in others : request.headers[h] = arg.headers[h]

\* C17 as claimed: signing changes nothing of a returned request but the
\* six headers it sets; every other header is as the caller sent it.
C17_OnlyTheSixHeaders ==
  pc = "returned" => SigningSetsItsHeaders /\ Untouched(AlwaysPresent)

\* C17, amended: signing changes nothing of a returned request but the six
\* headers it sets and, when the signer has a session token, the
\* x-amz-security-token header, which then carries that token; every other
\* header is as the caller sent it, and without a session token
\* x-amz-security-token is one of these.
C17_SixHeadersAndToken ==
  pc = "returned" =>
    /\ SigningSetsItsHeaders
    /\ IF Truthy(signer.aws_session_token)
       THEN /\ getitem(request.headers, SECURITY_TOKEN) = signer.aws_session_token
            /\ Untouched(AlwaysPresent \cup {SECURITY_TOKEN})
       ELSE Untouched(AlwaysPresent)

\* A returned request of a signer with a session token whose caller sent a
\* Content-Type, a custom header and another security token.
C17_Witness ==
  /\ pc = "returned"
  /\ Truthy(signer.aws_session_token)
  /\ contains(arg.headers, CONTENT_TYPE)
  /\ contains(arg.headers, XCustom)
  /\ contains(arg.headers, SECURITY_TOKEN)
  /\ getitem(arg.headers, SECURITY_TOKEN) # getitem(request.headers, SECURITY_TOKEN)

-----------------------------------------------------------------------------
(* The retry loop. *)

\* The attempts of the log that did not end in a response.
FailedAttempts == {i \in DOMAIN retry.log : retry.log[i] # "Response"}

\* What the attempt that got a response hands to the caller: the JSON
\* object of the response (amazon_repository) or the response itself.
ResultOf(response) ==
  IF retry.module = "amazon_repository" THEN response.value ELSE response

\* C12 as claimed: call_sp_api_method makes at most max_retries attempts
\* and, while it is in its loop, fewer, so that it ends; it has slept one
\* second for every attempt that failed; and an attempt that got a response
\* is the last one, after which the function has returned that attempt's
\* result.
C12_BoundedRetry ==
  retry.pc # "idle" =>
    /\ Len(retry.log) <= retry.max_retries
    /\ retry.pc = "loop" => Len(retry.log) < retry.max_retries
    /\ retry.slept = Cardinality(FailedAttempts)
    /\ \A i \in DOMAIN retry.log :
         retry.log[i] = "Response" =>
           /\ i = Len(retry.log)
           /\ retry.pc = "returned"
           /\ retry.return = ResultOf(retry.response)

\* C13 as claimed: when call_sp_api_method has ended and each of its
\* max_retries attempts has failed, it has ended in an exception and not in
\* a return.
C13_FailureReported ==
  ( /\ retry.pc \in {"returned", "raised"}
    /\ Len(retry.log) = retry.max_retries
    /\ FailedAttempts = DOMAIN retry.log )
  => retry.pc = "raised"

-----------------------------------------------------------------------------
(* Pagination. *)

\* The orders of the first n pages, in page order.
RECURSIVE OrdersOf(_, _)
OrdersOf(pages, n) ==
  IF n = 0 THEN << >>
  ELSE OrdersOf(pages, n - 1) \o dict_get(pages[n], "Orders").value

\* C20 as claimed: when get_orders has ended and its last call of
\* call_sp_api_method returned a page of the Orders API (as every earlier
\* one then did), get_orders has returned, not raised, and its result is
\* the orders of all pages in page order.
C20_AllPages ==
  ( /\ listing.pc \in {"returned", "raised"}
    /\ retry.pc = "returned"
    /\ retry.return.type = "dict"
    /\ "payload" \in DOMAIN retry.return.value )
  => /\ listing.pc = "returned"
     /\ listing.result = OrdersOf(listing.pages, Len(listing.pages))

-----------------------------------------------------------------------------
(* Fresh credentials for every request. *)

\* What the services have seen of the k-th make_request, in order.
EventsOf(k) == SelectSeq(client.events, LAMBDA e : e.call = k)

\* The access key id of the Credential field of an Authorization value.
CredentialKey(auth) ==
  LET cred == AuthField(auth, 1)
  IN  SubSeq(cred, 1, IndexOf(cred, Ord("/")) - 1)

Protocol == << "LWA", "STS", "SP-API" >>

\* C18: of every make_request the services see, in this order and each at
\* most once, a token exchange, a role assumption and a request to the
\* Selling Partner API; there is no role assumption without the access
\* token of the exchange before it and no request without the credentials
\* of the role assumption before it, so a failed token exchange is all
\* that is seen of its make_request, which has raised SPAPIError; a
\* make_request that has returned has sent its request; the request
\* carries the access token of the exchange of its own make_request and is
\* signed under the access key id of the role assumption of its own
\* make_request, and under neither of another make_request's.
C18_FreshCredentialsSignedOnce ==
  /\ \A i, j \in DOMAIN client.events :
       i < j => client.events[i].call <= client.events[j].call
  /\ client.pc = "returned" => Len(EventsOf(client.calls)) = 3
  /\ (client.pc = "raised" /\ client.exception = "SPAPIError")
       => Len(EventsOf(client.calls)) = 1
  /\ \A k \in 1 .. client.calls :
       LET ev == EventsOf(k)
       IN  /\ Len(ev) <= Len(Protocol)
           /\ \A i \in DOMAIN ev : ev[i].service = Protocol[i]
           /\ Len(ev) >= 2 => ev[1].access_token # None
           /\ Len(ev) = 3 =>
                /\ ev[2].access_key_id # None
                /\ ev[3].access_token = ev[1].access_token
                /\ CredentialKey(ev[3].authorization) = ev[2].access_key_id
                /\ \A j \in (1 .. client.calls) \ {k} :
                     \A i \in DOMAIN EventsOf(j) :
                       /\ EventsOf(j)[i].service = "LWA"
                            => EventsOf(j)[i].access_token # ev[3].access_token
                       /\ EventsOf(j)[i].service = "STS"
                            => EventsOf(j)[i].access_key_id
                                 # CredentialKey(ev[3].authorization)

\* Three make_request calls: one that returned, one whose token exchange
\* failed and one that has returned.
C18_Witness ==
  /\ client.calls = 3
  /\ client.pc = "returned"
  /\ Len(EventsOf(1)) = 3
  /\ Len(EventsOf(2)) = 1
  /\ Len(EventsOf(3)) = 3

-----------------------------------------------------------------------------
(* Concurrent signing. *)

\* The signer objects get_auth builds, before their first call.
SignerObjects == {get_auth(SPAPI_init, assume_role(k)) : k \in Roles}

\* The Authorization value of the call of a signer object on a request at
\* a clock reading, when nothing else runs.
Sequential ==
  [c \in SignerObjects, r \in SignRequests, t \in Times |->
     getitem(AWSSigV4_call([c EXCEPT !.amzdate = strftime_amzdate(t),
                                     !.datestamp = strftime_date(t)], r).headers,
             AUTHORIZATION)]

\* The signer object of call p as get_auth built it.
CredentialsOf(p) == [signers[calls[p].self] EXCEPT !.amzdate = None, !.datestamp = None]

AuthorizationOf(p) == getitem(calls[p].request.headers, AUTHORIZATION)

\* C11: when every call runs on a signer object of its own, the
\* Authorization header of a returned request is the value that the call
\* has when nothing else runs, which depends on the request passed, on the
\* credentials, region and service of its signer and on its clock reading
\* and on nothing else; so two calls with equal inputs and equal clock
\* readings return equal Authorization values.
C11_OwnInputsOnly ==
  \A p \in Threads :
    calls[p].pc = "returned" =>
      /\ AuthorizationOf(p) = Sequential[CredentialsOf(p), calls[p].arg, calls[p].t]
      /\ \A q \in Threads :
           ( /\ calls[q].pc = "returned"
             /\ calls[q].arg = calls[p].arg
             /\ calls[q].t = calls[p].t
             /\ CredentialsOf(q) = CredentialsOf(p) )
           => AuthorizationOf(q) = AuthorizationOf(p)

\* Two returned calls that ran interleaved on two signer objects, on equal
\* requests, credentials and clock readings.
C11_Witness ==
  /\ \A p \in Threads : calls[p].pc = "returned" /\ calls[p].interleaved
  /\ calls[1].self # calls[2].self
  /\ calls[1].arg = calls[2].arg
  /\ calls[1].t = calls[2].t
  /\ CredentialsOf(1) = CredentialsOf(2)

\* C19 as claimed: when the calls run on one signer object, in every
\* returned request the X-AMZ-Date header is the timestamp of the call's
\* own clock reading and the timestamp of the string-to-sign behind its
\* signature, and the date of the Credential scope is the first eight
\* characters of that timestamp.
C19_SelfConsistent ==
  \A p \in Threads :
    calls[p].pc = "returned" =>
      LET xdate == getitem(calls[p].request.headers, AMZ_DATE)
          sts   == Lines(calls[p].frame.string_to_sign)
      IN  /\ xdate = strftime_amzdate(calls[p].t)
          /\ sts[2] = xdate
          /\ split(AuthScope(AuthorizationOf(p)), Ord("/"))[1] = SubSeq(sts[2], 1, 8)

-----------------------------------------------------------------------------
(* Transport failures. *)

\* The last attempt of call_sp_api_method failed in the transport: the
\* request raised a network error, or the response has an error status.
TransportFailure ==
  /\ retry.log # << >>
  /\ \/ retry.log[Len(retry.log)] = "ConnectionError"
     \/ /\ retry.log[Len(retry.log)] = "Response"
        /\ "errors" \in DOMAIN retry.response.value.value

\* C21 as claimed: after an attempt of AmazonRepository.call_sp_api_method
\* that failed in the transport, the function is in its loop for the next
\* attempt or has made all max_retries attempts; it has not returned that
\* attempt's response as its result, and it has not let the failure out
\* before the last attempt.
C21_TransportFailureRetried ==
  (retry.module = "amazon_repository" /\ TransportFailure) =>
    /\ retry.pc = "loop" \/ Len(retry.log) = retry.max_retries
    /\ ~(retry.pc = "returned" /\ retry.return = ResultOf(retry.response))
    /\ retry.pc = "raised" => Len(retry.log) = retry.max_retries

-----------------------------------------------------------------------------
(* The parameters of a continuation request. *)

\* The selection criteria other than the continuation token that the
\* callers of Orders.get_orders choose or that it fills in.
OtherCriteria ==
  {"CreatedAfter", "MaxResultsPerPage", "MarketplaceIds"}
  \cup {indexed("OrderStatuses", idx) : idx \in 0 .. Len(order_statuses.value) - 1}
  \cup {indexed("FulfillmentChannels", idx) : idx \in 0 .. Len(fulfillment_channels.value) - 1}

\* C22 as claimed: the params of a request that Orders.get_orders has made
\* for a call with a next_token hold NextToken, which is that token, and
\* none of the other selection criteria.
C22_TokenSuppressesFilters ==
  (retry.log # << >> /\ ~Falsy(retry.kwargs.next_token)) =>
    /\ "NextToken" \in DOMAIN retry.params
    /\ retry.params["NextToken"] = retry.kwargs.next_token
    /\ DOMAIN retry.params \cap OtherCriteria = {}

====
